---- MODULE Spec2Model ----
(***************************************************************************)
(* Model of apps/api-server/app.py: a single-threaded HTTP server          *)
(* (http.server.HTTPServer) with a health, a metrics and an echo endpoint, *)
(* an in-memory metrics store (two module-level dicts) and a signal        *)
(* handler that calls server.shutdown().                                   *)
(*                                                                         *)
(* Everything runs in the main thread.  CPython runs a signal handler in   *)
(* the main thread, on top of whatever the main thread is executing, so    *)
(* the thread is modelled as the position of main() (pc) plus a stack of   *)
(* handle_shutdown frames (frames); only the topmost frame can step.       *)
(* socketserver.BaseServer.shutdown() sets the shutdown request flag and   *)
(* then waits for the event that serve_forever() sets when it returns.     *)
(*                                                                         *)
(* Strings whose characters matter (request paths) are sequences of        *)
(* one-character strings, so that == and str.startswith are computed.      *)
(***************************************************************************)
EXTENDS Integers, Sequences, FiniteSets, TLC

VARIABLES
    pc,               \* position of main(): see MainPcs
    sock,             \* listening socket: "none", "listening", "closed"
    handlers,         \* signal -> "default" | "handle_shutdown"
    shutdown_request, \* BaseServer.__shutdown_request
    is_shut_down,     \* BaseServer.__is_shut_down (threading.Event)
    frames,           \* stack of handle_shutdown frames on the main thread
    path,             \* do_GET: self.path of the current request
    start_time,       \* do_GET: start_time
    now,              \* the wall clock read by time.time()
    env,              \* os.environ: APP_VERSION and HOSTNAME
    request_count,    \* module dict request_count, in insertion order
    request_duration, \* module dict request_duration, in insertion order
    response,         \* what has been written to the current connection
    logs,             \* lines emitted through logger.info, in order
    exited,           \* the process has ended
    exit_code,        \* its exit status once exited
    responded,        \* history: path -> number of responses written
    last_elapsed,     \* history: path -> duration its latest echo request measured
    store_at_start,   \* history: the two dicts when the current do_GET began
    requested,        \* history: the shutdown handler has been invoked
    requested_in,     \* history: lifecycle state at its first invocation
    bind_attempts,    \* history: number of bind attempts
    bind_failed,      \* history: a bind attempt raised OSError
    nreq,             \* history: number of requests accepted
    nsig              \* history: number of signals delivered

vars == <<pc, sock, handlers, shutdown_request, is_shut_down, frames, path,
          start_time, now, env, request_count, request_duration, response,
          logs, exited, exit_code, responded, last_elapsed, store_at_start,
          requested, requested_in, bind_attempts, bind_failed, nreq, nsig>>

----------------------------------------------------------------------------
(* Bounds *)

MaxRequests == 3
MaxSignals == 2
MaxClock == 1

----------------------------------------------------------------------------
(* Request paths *)

HealthPath == <<"/", "h", "e", "a", "l", "t", "h">>
MetricsPath == <<"/", "m", "e", "t", "r", "i", "c", "s">>
EchoPrefix == <<"/", "a", "p", "i", "/", "e", "c", "h", "o">>
HealthSlash == <<"/", "h", "e", "a", "l", "t", "h", "/">>
MetricsQuery == <<"/", "m", "e", "t", "r", "i", "c", "s", "?", "x", "=", "1">>
EchoSlash == <<"/", "a", "p", "i", "/", "e", "c", "h", "o", "/">>
EchoQuery1 == <<"/", "a", "p", "i", "/", "e", "c", "h", "o", "?", "x", "=", "1">>
FooBar == <<"/", "f", "o", "o", "/", "b", "a", "r">>

\* The request paths a client sends in this model.
Paths ==
    {HealthPath, HealthSlash, MetricsPath, MetricsQuery,
     EchoPrefix, EchoSlash, EchoQuery1, FooBar}

NoPath == <<>>

\* str.startswith
StartsWith(s, prefix) ==
    /\ Len(s) >= Len(prefix)
    /\ SubSeq(s, 1, Len(prefix)) = prefix

\* Mutant of RouteOf: the health test written as a prefix test.
RouteOfHealthByPrefix(p) ==
    IF StartsWith(p, HealthPath) THEN "health"
    ELSE IF p = MetricsPath THEN "metrics"
    ELSE IF StartsWith(p, EchoPrefix) THEN "echo"
    ELSE "notfound"

\* The if-chain of do_GET: the first test that succeeds picks the branch.
RouteOf(p) ==
    IF p = HealthPath THEN "health"
    ELSE IF p = MetricsPath THEN "metrics"
    ELSE IF StartsWith(p, EchoPrefix) THEN "echo"
    ELSE "notfound"

\* Mutant of RecordsMetrics: the dict assignments made for every request.
RecordsMetricsForEveryRequest(route) == TRUE

\* The branches of do_GET that hold the two dict assignments.
RecordsMetrics(route) == route = "echo"

----------------------------------------------------------------------------
(* The metrics store: a Python dict keeps its keys in insertion order *)

HasKey(d, k) == \E i \in 1..Len(d) : d[i].k = k

\* dict.get(k, default)
Get(d, k, default) ==
    IF HasKey(d, k) THEN d[CHOOSE i \in 1..Len(d) : d[i].k = k].v ELSE default

\* d[k] = v
Put(d, k, v) ==
    IF HasKey(d, k)
    THEN [i \in 1..Len(d) |-> IF d[i].k = k THEN [k |-> k, v |-> v] ELSE d[i]]
    ELSE Append(d, [k |-> k, v |-> v])

\* Mutant of Increment: the old count is not read.
IncrementForgetsOldCount(counts, p) == Put(counts, p, 1)

\* Mutant of Increment: nothing is counted.
IncrementSkipped(counts, p) == counts

\* Mutant of Increment: the dict is rebound to one holding only this path.
IncrementRebindsDict(counts, p) == <<[k |-> p, v |-> Get(counts, p, 0) + 1]>>

\* request_count[path] = request_count.get(path, 0) + 1
Increment(counts, p) == Put(counts, p, Get(counts, p, 0) + 1)

\* Mutant of RecordDuration: the new duration is added to the stored one.
RecordDurationAccumulates(durations, p, d) ==
    Put(durations, p, Get(durations, p, 0) + d)

\* Mutant of RecordDuration: a zero duration is not stored.
RecordDurationSkipsZero(durations, p, d) ==
    IF d = 0 THEN durations ELSE Put(durations, p, d)

\* request_duration[path] = duration
RecordDuration(durations, p, d) == Put(durations, p, d)

----------------------------------------------------------------------------
(* Responses *)

NoResponse == [status |-> 0, ctype |-> "", body |-> [none |-> TRUE]]

Unset == "<unset>"

\* Mutant of GetEnv: the environment is not consulted.
GetEnvIgnoresEnvironment(e, name, default) == default

\* os.getenv(name, default)
GetEnv(e, name, default) == IF e[name] = Unset THEN default ELSE e[name]

HealthResponse(e) ==
    [status |-> 200, ctype |-> "application/json",
     body |-> [status |-> "healthy",
               version |-> GetEnv(e, "APP_VERSION", "1.0.0")]]

EchoResponse(e, t) ==
    [status |-> 200, ctype |-> "application/json",
     body |-> [message |-> "pong",
               hostname |-> GetEnv(e, "HOSTNAME", "unknown"),
               timestamp |-> t]]

NotFoundResponse ==
    [status |-> 404, ctype |-> "application/json",
     body |-> [error |-> "Not found"]]

\* One line of the exposition text: a comment line or a sample line.
Comment(text) == [kind |-> "comment", name |-> text, endpoint |-> NoPath, value |-> 0]

\* f'{name}{{endpoint="{endpoint}"}} {value}'
Sample(name, endpoint, value) ==
    [kind |-> "sample", name |-> name, endpoint |-> endpoint, value |-> value]

\* Mutant of generate_metrics: the second loop iterates request_count again.
generate_metrics_counts_twice(counts, durations) ==
    <<Comment("# HELP api_requests_total Total number of requests"),
      Comment("# TYPE api_requests_total counter")>>
    \o [i \in 1..Len(counts) |->
          Sample("api_requests_total", counts[i].k, counts[i].v)]
    \o <<Comment("# HELP api_request_duration_seconds Request duration"),
         Comment("# TYPE api_request_duration_seconds gauge")>>
    \o [i \in 1..Len(counts) |->
          Sample("api_request_duration_seconds", counts[i].k, counts[i].v)]

\* _generate_metrics: the lines that are joined with "\n" and terminated by one
generate_metrics(counts, durations) ==
    <<Comment("# HELP api_requests_total Total number of requests"),
      Comment("# TYPE api_requests_total counter")>>
    \o [i \in 1..Len(counts) |->
          Sample("api_requests_total", counts[i].k, counts[i].v)]
    \o <<Comment("# HELP api_request_duration_seconds Request duration"),
         Comment("# TYPE api_request_duration_seconds gauge")>>
    \o [i \in 1..Len(durations) |->
          Sample("api_request_duration_seconds", durations[i].k, durations[i].v)]

MetricsResponse(counts, durations) ==
    [status |-> 200, ctype |-> "text/plain",
     body |-> [lines |-> generate_metrics(counts, durations)]]

----------------------------------------------------------------------------
(* The process *)

Signals == {"SIGINT", "SIGTERM"}

MainPcs ==
    {"bind", "log_start", "install_term", "install_int", "serve_forever",
     "select", "do_GET", "respond", "done", "crashed", "killed"}

\* Positions inside serve_forever(), that is inside the try block of main().
ServePcs == {"select", "do_GET", "respond"}

\* Positions between the start of do_GET and the end of its response.
InFlightPcs == {"do_GET", "respond"}

Alive == pc \notin {"done", "crashed", "killed"}

\* The main() frame is the top of the main thread's stack.
MainRuns == Alive /\ frames = <<>>

\* The server lifecycle of the specification, read off the program state.
Lifecycle ==
    IF pc = "done" THEN "Stopped"
    ELSE IF requested THEN "ShuttingDown"
    ELSE IF pc \in ServePcs THEN "Listening"
    ELSE "Created"

\* Mutant of AfterBind: the OSError is swallowed and startup goes on.
AfterBindIgnoresFailure(ok) == "log_start"

\* HTTPServer((host, port), APIHandler): where main() goes after the
\* constructor bound the socket (ok) or raised OSError (not ok).
AfterBind(ok) == IF ok THEN "log_start" ELSE "crashed"

\* Mutant of Shutdown: the handler only logs, the server is never told.
ShutdownNotCalled(event_set) == [request |-> FALSE, blocks |-> FALSE]

\* server.shutdown() as called by handle_shutdown: the value it gives the
\* shutdown request flag and whether the caller then blocks on the event.
Shutdown(event_set) == [request |-> TRUE, blocks |-> ~event_set]

\* The environments the process is started in: nothing set, or both set.
Environments ==
    {[APP_VERSION |-> Unset, HOSTNAME |-> Unset],
     [APP_VERSION |-> "2.0.0", HOSTNAME |-> "pod-1"]}

Init ==
    /\ pc = "bind"
    /\ sock = "none"
    /\ handlers = [s \in Signals |-> "default"]
    /\ shutdown_request = FALSE
    /\ is_shut_down = FALSE
    /\ frames = <<>>
    /\ path = NoPath
    /\ start_time = 0
    /\ now = 0
    /\ env \in Environments
    /\ request_count = <<>>
    /\ request_duration = <<>>
    /\ response = NoResponse
    /\ logs = <<>>
    /\ exited = FALSE
    /\ exit_code = 0
    /\ responded = [p \in Paths |-> 0]
    /\ last_elapsed = [p \in Paths |-> 0]
    /\ store_at_start = <<<<>>, <<>>>>
    /\ requested = FALSE
    /\ requested_in = "none"
    /\ bind_attempts = 0
    /\ bind_failed = FALSE
    /\ nreq = 0
    /\ nsig = 0

----------------------------------------------------------------------------
(* main(), lines 102-120 *)

\* What leaving the try block does: serve_forever()'s own finally clause,
\* then main()'s finally clause (server_close, the completion log line), and
\* the process ends normally.
LeaveServeLoop ==
    /\ shutdown_request' = FALSE
    /\ is_shut_down' = TRUE
    /\ sock' = "closed"
    /\ logs' = Append(logs, "Server stopped")
    /\ pc' = "done"
    /\ exited' = TRUE
    /\ exit_code' = 0

\* An exception that nothing catches: traceback, exit status 1.
Crash ==
    /\ pc' = "crashed"
    /\ exited' = TRUE
    /\ exit_code' = 1

\* server = HTTPServer(('0.0.0.0', port), APIHandler): bind and listen, or
\* OSError (the constructor closes the socket before it re-raises).
Bind ==
    /\ MainRuns
    /\ pc = "bind"
    /\ \E ok \in BOOLEAN :
        /\ pc' = AfterBind(ok)
        /\ sock' = IF ok THEN "listening" ELSE "closed"
        /\ exited' = (AfterBind(ok) = "crashed")
        /\ exit_code' = IF AfterBind(ok) = "crashed" THEN 1 ELSE 0
        /\ bind_failed' = ~ok
    /\ bind_attempts' = bind_attempts + 1
    /\ UNCHANGED <<handlers, shutdown_request, is_shut_down, frames, path,
                   start_time, now, env, request_count, request_duration,
                   response, logs, responded, last_elapsed, store_at_start, requested,
                   requested_in, nreq, nsig>>

\* logger.info(f"Starting API server on port {port}")
LogStarting ==
    /\ MainRuns
    /\ pc = "log_start"
    /\ logs' = Append(logs, "Starting API server")
    /\ pc' = "install_term"
    /\ UNCHANGED <<sock, handlers, shutdown_request, is_shut_down, frames,
                   path, start_time, now, env, request_count,
                   request_duration, response, exited, exit_code, responded, last_elapsed,
                   store_at_start, requested, requested_in, bind_attempts, bind_failed,
                   nreq, nsig>>

\* signal.signal(signal.SIGTERM, handle_shutdown)
InstallSIGTERM ==
    /\ MainRuns
    /\ pc = "install_term"
    /\ handlers' = [handlers EXCEPT !["SIGTERM"] = "handle_shutdown"]
    /\ pc' = "install_int"
    /\ UNCHANGED <<sock, shutdown_request, is_shut_down, frames, path,
                   start_time, now, env, request_count, request_duration,
                   response, logs, exited, exit_code, responded, last_elapsed,
                   store_at_start, requested, requested_in, bind_attempts, bind_failed,
                   nreq, nsig>>

\* signal.signal(signal.SIGINT, handle_shutdown)
InstallSIGINT ==
    /\ MainRuns
    /\ pc = "install_int"
    /\ handlers' = [handlers EXCEPT !["SIGINT"] = "handle_shutdown"]
    /\ pc' = "serve_forever"
    /\ UNCHANGED <<sock, shutdown_request, is_shut_down, frames, path,
                   start_time, now, env, request_count, request_duration,
                   response, logs, exited, exit_code, responded, last_elapsed,
                   store_at_start, requested, requested_in, bind_attempts, bind_failed,
                   nreq, nsig>>

\* server.serve_forever() is entered: self.__is_shut_down.clear()
ServeForever ==
    /\ MainRuns
    /\ pc = "serve_forever"
    /\ is_shut_down' = FALSE
    /\ pc' = "select"
    /\ UNCHANGED <<sock, handlers, shutdown_request, frames, path,
                   start_time, now, env, request_count, request_duration,
                   response, logs, exited, exit_code, responded, last_elapsed,
                   store_at_start, requested, requested_in, bind_attempts, bind_failed,
                   nreq, nsig>>

\* Mutant of AcceptsAt: a server that hands each connection to a thread of its
\* own accepts the next one while a request is being handled.
AcceptsWhileHandling(p) == p \in ServePcs

\* HTTPServer handles a connection inside the serve_forever loop: the loop
\* selects and accepts only when no request is being handled.
AcceptsAt(p) == p = "select"

\* One turn of the serve_forever loop.  With the shutdown request flag set the
\* loop ends and main() runs to its end.  Otherwise select() reports a
\* connection, which is accepted, and do_GET begins: start_time = time.time(),
\* path = self.path.  (A select() that times out changes nothing.)
ServeLoop ==
    /\ MainRuns
    /\ AcceptsAt(pc)
    /\ IF shutdown_request
       THEN /\ LeaveServeLoop
            /\ UNCHANGED <<path, start_time, now, response, store_at_start,
                           nreq>>
       ELSE /\ nreq < MaxRequests
            /\ \E p \in Paths, t \in now..MaxClock :
                /\ path' = p
                /\ now' = t
                /\ start_time' = t
            /\ response' = NoResponse
            /\ store_at_start' = <<request_count, request_duration>>
            /\ nreq' = nreq + 1
            /\ pc' = "do_GET"
            /\ UNCHANGED <<sock, shutdown_request, is_shut_down, logs,
                           exited, exit_code>>
    /\ UNCHANGED <<handlers, frames, env, request_count, request_duration,
                   responded, last_elapsed, requested, requested_in, bind_attempts, bind_failed, nsig>>

----------------------------------------------------------------------------
(* APIHandler.do_GET, lines 30-80 *)

\* The if-chain selects the branch; the echo branch first computes
\* duration = time.time() - start_time and assigns both dicts.
Dispatch ==
    /\ MainRuns
    /\ pc = "do_GET"
    /\ IF RecordsMetrics(RouteOf(path))
       THEN \E t \in now..MaxClock :
              /\ now' = t
              /\ request_count' = Increment(request_count, path)
              /\ request_duration' =
                    RecordDuration(request_duration, path, t - start_time)
              /\ last_elapsed' = [last_elapsed EXCEPT ![path] = t - start_time]
       ELSE UNCHANGED <<now, request_count, request_duration, last_elapsed>>
    /\ pc' = "respond"
    /\ UNCHANGED <<sock, handlers, shutdown_request, is_shut_down, frames,
                   path, start_time, env, response, logs, exited, exit_code,
                   responded, store_at_start, requested, requested_in,
                   bind_attempts, bind_failed, nreq, nsig>>

\* Mutant of log_message: the override is missing and the base class writes
\* its access line for every response.
log_message_not_suppressed(code) == <<"access">>

\* APIHandler.log_message: what send_response(code) logs through it.
log_message(code) == <<>>

\* What every branch does once its response is written: do_GET returns and the
\* serve loop takes its next turn.
Responded ==
    /\ responded' = [responded EXCEPT ![path] = @ + 1]
    /\ pc' = "select"
    /\ UNCHANGED <<last_elapsed, sock, handlers, shutdown_request, is_shut_down, frames,
                   path, start_time, env, request_count, request_duration,
                   exited, exit_code, store_at_start, requested,
                   requested_in, bind_attempts, bind_failed, nreq, nsig>>

\* lines 36-45
SendHealth ==
    /\ MainRuns
    /\ pc = "respond"
    /\ RouteOf(path) = "health"
    /\ response' = HealthResponse(env)
    /\ logs' = logs \o log_message(200) \o <<"Health check passed">>
    /\ UNCHANGED now
    /\ Responded

\* lines 49-54
SendMetrics ==
    /\ MainRuns
    /\ pc = "respond"
    /\ RouteOf(path) = "metrics"
    /\ response' = MetricsResponse(request_count, request_duration)
    /\ logs' = logs \o log_message(200)
    /\ UNCHANGED now
    /\ Responded

\* lines 62-73
SendEcho ==
    /\ MainRuns
    /\ pc = "respond"
    /\ RouteOf(path) = "echo"
    /\ \E t \in now..MaxClock :
        /\ now' = t
        /\ response' = EchoResponse(env, t)
    /\ logs' = logs \o log_message(200) \o <<"Request">>
    /\ Responded

\* lines 76-80
SendNotFound ==
    /\ MainRuns
    /\ pc = "respond"
    /\ RouteOf(path) = "notfound"
    /\ response' = NotFoundResponse
    /\ logs' = logs \o log_message(404)
    /\ UNCHANGED now
    /\ Responded

----------------------------------------------------------------------------
(* Signals and handle_shutdown, lines 107-112 *)

\* A SIGINT or SIGTERM reaches the process.  With handle_shutdown installed
\* the main thread enters it, on top of whatever it was doing.  Otherwise the
\* default disposition applies: SIGTERM ends the process, SIGINT raises
\* KeyboardInterrupt where the main thread stands, which main() catches only
\* inside its try block.
Signal(s) ==
    /\ Alive
    /\ nsig < MaxSignals
    /\ nsig' = nsig + 1
    /\ IF handlers[s] = "handle_shutdown"
       THEN /\ frames' = Append(frames, "log")
            /\ requested' = TRUE
            /\ requested_in' = IF requested THEN requested_in ELSE Lifecycle
            /\ UNCHANGED <<pc, sock, shutdown_request, is_shut_down, logs,
                           exited, exit_code>>
       ELSE /\ frames' = <<>>
            /\ UNCHANGED <<requested, requested_in>>
            /\ IF s = "SIGTERM"
               THEN /\ pc' = "killed"
                    /\ exited' = TRUE
                    /\ exit_code' = 143
                    /\ UNCHANGED <<sock, shutdown_request, is_shut_down, logs>>
               ELSE IF pc \in ServePcs
               THEN LeaveServeLoop
               ELSE /\ Crash
                    /\ UNCHANGED <<sock, shutdown_request, is_shut_down, logs>>
    /\ UNCHANGED <<handlers, path, start_time, now, env, request_count,
                   request_duration, response, responded, last_elapsed, store_at_start,
                   bind_attempts, bind_failed, nreq>>

\* logger.info("Shutdown signal received, gracefully stopping...")
HandlerLog ==
    /\ Alive
    /\ frames # <<>>
    /\ frames[Len(frames)] = "log"
    /\ logs' = Append(logs, "Shutdown signal received")
    /\ frames' = [frames EXCEPT ![Len(frames)] = "shutdown"]
    /\ UNCHANGED <<pc, sock, handlers, shutdown_request, is_shut_down, path,
                   start_time, now, env, request_count, request_duration,
                   response, exited, exit_code, responded, last_elapsed, store_at_start,
                   requested, requested_in, bind_attempts, bind_failed, nreq, nsig>>

\* server.shutdown(): self.__shutdown_request = True, then
\* self.__is_shut_down.wait().  The handler returns when the wait does.
HandlerShutdown ==
    /\ Alive
    /\ frames # <<>>
    /\ frames[Len(frames)] = "shutdown"
    /\ shutdown_request' = Shutdown(is_shut_down).request
    /\ frames' = IF Shutdown(is_shut_down).blocks
                 THEN [frames EXCEPT ![Len(frames)] = "wait"]
                 ELSE SubSeq(frames, 1, Len(frames) - 1)
    /\ UNCHANGED <<pc, sock, handlers, is_shut_down, path, start_time, now,
                   env, request_count, request_duration, response, logs,
                   exited, exit_code, responded, last_elapsed, store_at_start, requested,
                   requested_in, bind_attempts, bind_failed, nreq, nsig>>

----------------------------------------------------------------------------

\* The steps of the main thread that need nothing from outside the process.
ThreadStep ==
    \/ LogStarting
    \/ InstallSIGTERM
    \/ InstallSIGINT
    \/ ServeForever
    \/ (ServeLoop /\ shutdown_request)
    \/ Dispatch
    \/ SendHealth
    \/ SendMetrics
    \/ SendEcho
    \/ SendNotFound
    \/ HandlerLog
    \/ HandlerShutdown

Next ==
    \/ Bind
    \/ LogStarting
    \/ InstallSIGTERM
    \/ InstallSIGINT
    \/ ServeForever
    \/ ServeLoop
    \/ Dispatch
    \/ SendHealth
    \/ SendMetrics
    \/ SendEcho
    \/ SendNotFound
    \/ \E s \in Signals : Signal(s)
    \/ HandlerLog
    \/ HandlerShutdown

Spec == Init /\ [][Next]_vars

\* The interpreter keeps running the main thread: a step it can take is
\* eventually taken.  Signals and client connections come from outside and
\* carry no such guarantee.
FairSpec == Spec /\ WF_vars(ThreadStep)

TypeOK ==
    /\ pc \in MainPcs
    /\ sock \in {"none", "listening", "closed"}
    /\ shutdown_request \in BOOLEAN
    /\ is_shut_down \in BOOLEAN
    /\ path \in Paths \cup {NoPath}
    /\ now \in 0..MaxClock
    /\ nreq \in 0..MaxRequests
    /\ nsig \in 0..MaxSignals
    /\ Len(frames) <= MaxSignals

----------------------------------------------------------------------------
(* Properties *)

Logged(m) == \E i \in 1..Len(logs) : logs[i] = m

Store == <<request_count, request_duration>>

IsEchoPath(p) == StartsWith(p, EchoPrefix)

\* The paths of the model that begin with '/api/echo'.
EchoPaths == {p \in Paths : IsEchoPath(p)}

\* Number of entries of dict d stored under key k.
Entries(d, k) == Cardinality({i \in 1..Len(d) : d[i].k = k})

\* C1: whenever SIGINT or SIGTERM is delivered while the server is Listening
\* (serve_forever running), the server eventually reaches Stopped: the loop
\* has returned, the socket is closed, "Server stopped" is logged and the
\* process has exited with status 0.
C1_SignalLeadsToStopped ==
    (requested /\ requested_in = "Listening")
        ~> (/\ pc = "done"
            /\ sock = "closed"
            /\ Logged("Server stopped")
            /\ exited
            /\ exit_code = 0)

\* C2: between requests, for every path p the store holds counts[p] = the
\* number of handled requests whose exact path was p and began with
\* '/api/echo', in exactly one entry, and holds no entry for p when that
\* number is zero.
C2_CountsMatchHandledRequests ==
    pc \notin InFlightPcs =>
        /\ \A i \in 1..Len(request_count) : request_count[i].k \in Paths
        /\ \A p \in Paths :
              IF p \in EchoPaths /\ responded[p] > 0
              THEN /\ Entries(request_count, p) = 1
                   /\ Get(request_count, p, 0) = responded[p]
              ELSE Entries(request_count, p) = 0

\* C2 witness: the same exact path twice gives one entry with count 2, and a
\* path with another query string has its own entry with count 1.
C2_Witness ==
    /\ pc = "select"
    /\ Len(request_count) = 2
    /\ Get(request_count, EchoPrefix, 0) = 2
    /\ Get(request_count, EchoQuery1, 0) = 1

\* C3: the response written for a GET follows the priority '/health' exactly
\* (200, JSON, healthy), '/metrics' exactly (200, text/plain), any path with
\* prefix '/api/echo' (200, JSON, message pong), anything else (404, JSON,
\* body {"error": "Not found"}).
C3_RouterPriority ==
    response.status # 0 =>
        IF path = HealthPath
        THEN /\ response.status = 200
             /\ response.ctype = "application/json"
             /\ response.body.status = "healthy"
        ELSE IF path = MetricsPath
        THEN /\ response.status = 200
             /\ response.ctype = "text/plain"
        ELSE IF IsEchoPath(path)
        THEN /\ response.status = 200
             /\ response.ctype = "application/json"
             /\ response.body.message = "pong"
        ELSE /\ response.status = 404
             /\ response.ctype = "application/json"
             /\ response.body = [error |-> "Not found"]

\* C3 witness: '/metrics?x=1' has been answered with the 404 response.
C3_Witness ==
    /\ path = MetricsQuery
    /\ response.status = 404
    /\ responded[HealthSlash] > 0
    /\ responded[EchoSlash] > 0

\* C4: a request for '/health', for '/metrics' or for a path that yields 404
\* leaves counts and lastDuration as they were when it began, while it is
\* handled and once it is answered; only a request routed to the echo branch
\* has changed the store.
C4_NonEchoLeavesStore ==
    /\ (path = HealthPath \/ path = MetricsPath \/ response.status = 404)
          => Store = store_at_start
    /\ ~IsEchoPath(path) => Store = store_at_start

\* C4 witness: a '/metrics' scrape has been answered with a non-empty store.
C4_Witness ==
    /\ path = MetricsPath
    /\ response.status = 200
    /\ Len(request_count) > 0
    /\ responded[FooBar] > 0

\* C5: a request in flight when the shutdown signal is delivered still runs to
\* completion and its response is written.
C5_InFlightRequestCompletes ==
    (requested /\ pc \in InFlightPcs)
        ~> (pc \notin InFlightPcs /\ response.status # 0)

\* C6: every request whose handling begins, begins while the lifecycle state
\* is Listening: none is accepted once the shutdown signal has been received.
C6_NoRequestAfterSignal ==
    [][(pc # "do_GET" /\ pc' = "do_GET") => Lifecycle = "Listening"]_vars

\* C6 witness: the signal was received after one request had been served and
\* the handler has called server.shutdown(); more requests are within bounds.
C6_Witness ==
    /\ requested
    /\ requested_in = "Listening"
    /\ pc = "select"
    /\ shutdown_request
    /\ nreq = 1
    /\ nreq < MaxRequests

\* C7: the lifecycle starts in Created and only ever steps Created to
\* Listening, Listening to ShuttingDown, ShuttingDown to Stopped; no state is
\* skipped or revisited and nothing leaves Stopped.
C7_LifecycleOrder ==
    /\ Lifecycle = "Created"
    /\ [][\/ Lifecycle' = Lifecycle
          \/ <<Lifecycle, Lifecycle'>> \in
                {<<"Created", "Listening">>,
                 <<"Listening", "ShuttingDown">>,
                 <<"ShuttingDown", "Stopped">>}]_vars

\* C8 (as stated): the store reflects an echo request only after that
\* request's response has been written, so counts[p] never exceeds the number
\* of responses written for p.
C8_UpdateAfterResponse ==
    \A p \in Paths : Get(request_count, p, 0) <= responded[p]

\* C8 (amended): the store is updated before the echo response is written:
\* counts[p] is the number of responses written for p plus one while an echo
\* request for p has passed its update and not yet written its response, and
\* lastDuration has an entry for p exactly when counts has.
C8_UpdateBeforeResponse ==
    \A p \in Paths :
        /\ Get(request_count, p, 0) =
              (IF p \in EchoPaths THEN responded[p] ELSE 0)
              + (IF pc = "respond" /\ path = p /\ p \in EchoPaths THEN 1 ELSE 0)
        /\ HasKey(request_duration, p) <=> HasKey(request_count, p)

\* C8 witness: an echo request has updated the store and its response is not
\* yet written.
C8_Witness ==
    /\ pc = "respond"
    /\ path = EchoPrefix
    /\ response.status = 0
    /\ Get(request_count, EchoPrefix, 0) = responded[EchoPrefix] + 1
    /\ responded[EchoPrefix] = 1

CountLine(p) == Sample("api_requests_total", p, Get(request_count, p, 0))

DurationLine(p) ==
    Sample("api_request_duration_seconds", p, Get(request_duration, p, 0))

C10_BindFailureIsFatal ==
    bind_failed =>
        /\ pc = "crashed"
        /\ exited
        /\ exit_code # 0
        /\ bind_attempts = 1
        /\ Lifecycle = "Created"
        /\ sock # "listening"
        /\ nreq = 0
        /\ ~Logged("Server stopped")

\* C10 witness: the bind has failed and the process has ended.
C10_Witness ==
    /\ bind_failed
    /\ exited
    /\ logs = <<>>

\* C11: counts is monotone: a path that has an entry in counts or lastDuration
\* keeps it, counts[p] never decreases, and the step in which an echo request
\* for p records its metrics raises counts[p] by exactly 1.
C11_CountsMonotone ==
    [][/\ \A p \in Paths :
            /\ HasKey(request_count, p) =>
                  /\ HasKey(request_count', p)
                  /\ Get(request_count', p, 0) >= Get(request_count, p, 0)
            /\ HasKey(request_duration, p) => HasKey(request_duration', p)
       /\ (pc = "do_GET" /\ pc' = "respond" /\ IsEchoPath(path)) =>
            Get(request_count', path, 0) = Get(request_count, path, 0) + 1
      ]_vars

\* C11 witness: a path has been counted twice, after another path received
\* its entry, which is still there.
C11_Witness ==
    /\ Get(request_count, EchoSlash, 0) = 2
    /\ Get(request_count, EchoPrefix, 0) = 1
    /\ request_count[1].k = EchoPrefix

\* Number of lines of the log equal to m.
Lines(m) == Cardinality({i \in 1..Len(logs) : logs[i] = m})

\* The log lines that main() and handle_shutdown emit.
LifecycleLines ==
    {"Starting API server", "Shutdown signal received", "Server stopped"}

\* Number of lines of the log emitted while handling requests.
RequestLines == Cardinality({i \in 1..Len(logs) : logs[i] \notin LifecycleLines})

RECURSIVE SeqOf(_)
\* The elements of set S in some order.
SeqOf(S) ==
    IF S = {} THEN <<>>
    ELSE LET p == CHOOSE q \in S : TRUE
         IN  <<p>> \o SeqOf(S \ {p})

PathList == SeqOf(Paths)

RECURSIVE SumRespondedFrom(_, _)
SumRespondedFrom(i, S) ==
    IF i > Len(PathList) THEN 0
    ELSE (IF PathList[i] \in S THEN responded[PathList[i]] ELSE 0)
         + SumRespondedFrom(i + 1, S)

\* Number of responses written for the paths of set S.
SumResponded(S) == SumRespondedFrom(1, S)

\* C12: each handled '/health' request and each handled echo request has
\* emitted exactly one log line, each '/metrics' and each 404 request none:
\* the request log lines number the health requests plus the echo requests.
C12_OneLogLinePerHealthOrEcho ==
    LET echoes == SumResponded(EchoPaths)
    IN  /\ Lines("Health check passed") = responded[HealthPath]
        /\ Lines("Request") = echoes
        /\ RequestLines = responded[HealthPath] + echoes

\* C12 witness: a health, a metrics and a 404 request have been answered and
\* the log holds one request line.
C12_Witness ==
    /\ responded[HealthPath] = 1
    /\ responded[MetricsPath] = 1
    /\ responded[FooBar] = 1
    /\ RequestLines = 1

\* C13: the version of a '/health' response is the value APP_VERSION has in
\* the environment when the request is handled, '1.0.0' when it is unset; the
\* hostname of an echo response is HOSTNAME, 'unknown' when it is unset.
C13_EnvironmentValues ==
    response.status # 0 =>
        /\ path = HealthPath =>
              response.body.version =
                 (IF env.APP_VERSION = Unset THEN "1.0.0" ELSE env.APP_VERSION)
        /\ IsEchoPath(path) =>
              response.body.hostname =
                 (IF env.HOSTNAME = Unset THEN "unknown" ELSE env.HOSTNAME)

\* C13 witness: with both variables set, a '/health' request has been answered
\* with the environment's version after an echo request was answered.
C13_Witness ==
    /\ env.APP_VERSION = "2.0.0"
    /\ path = HealthPath
    /\ response.status = 200
    /\ response.body.version = "2.0.0"
    /\ responded[EchoQuery1] = 1

\* Requests accepted and not yet answered.
InFlight == nreq - SumResponded(Paths)

\* C14: connections are handled one at a time: at most one request is in
\* flight, exactly while do_GET runs, so no request begins between the
\* beginning of another and its response.
C14_OneRequestAtATime ==
    /\ InFlight \in {0, 1}
    /\ InFlight = 1 <=> pc \in InFlightPcs

\* C14 witness: a second request is in flight after the first was answered.
C14_Witness ==
    /\ pc = "respond"
    /\ nreq = 2
    /\ SumResponded(Paths) = 1

\* C15: lastDuration is last-write-wins: lastDuration[p] is the duration that
\* the most recent echo request for exact path p measured, whatever earlier
\* requests for p measured.
C15_LastDurationWins ==
    \A p \in Paths :
        HasKey(request_duration, p) =>
            Get(request_duration, p, 0) = last_elapsed[p]

\* C15 witness: the second request for '/api/echo' measured 1 after the first
\* measured 0 (the clock still read 0 when the second began), and 1 is stored.
C15_Witness ==
    /\ pc = "respond"
    /\ path = EchoPrefix
    /\ start_time = 0
    /\ Get(request_count, EchoPrefix, 0) = 2
    /\ Get(request_duration, EchoPrefix, 0) = 1

ServeLoopNeverLeft == pc # "done"

Keys(d) == {d[i].k : i \in 1..Len(d)}

\* Number of sample lines of metric name in the lines L.
SampleLines(L, name) ==
    Cardinality({i \in 1..Len(L) : L[i].kind = "sample" /\ L[i].name = name})

C18_EchoChangesOnlyItsPath ==
    [][(pc \in InFlightPcs /\ IsEchoPath(path)) =>
          \A q \in Paths \ {path} :
              /\ HasKey(request_count', q) <=> HasKey(request_count, q)
              /\ Get(request_count', q, 0) = Get(request_count, q, 0)
              /\ HasKey(request_duration', q) <=> HasKey(request_duration, q)
              /\ Get(request_duration', q, 0) = Get(request_duration, q, 0)
      ]_vars

\* C18 witness: an echo request for '/api/echo/' has recorded its metrics
\* while '/api/echo' keeps its count of 2 and its duration of 1.
C18_Witness ==
    /\ pc = "respond"
    /\ path = EchoSlash
    /\ Get(request_count, EchoSlash, 0) = 1
    /\ Get(request_count, EchoPrefix, 0) = 2
    /\ Get(request_duration, EchoPrefix, 0) = 1

====
